---------------------------- MODULE Spec2Model ----------------------------
(***************************************************************************)
(* atopio-extra: the insecure JWT payload extractor                        *)
(* (decode_payload_insecurely, src/src/lib.rs) and the RecordId field      *)
(* adapters (the serialize_record_id and deserialize_record_id families).  *)
(*                                                                         *)
(* Text is a sequence of one-character strings, bytes are integers 0..255. *)
(* The library is stateless: a behaviour is one call chosen by the caller  *)
(* (Init) followed by the steps of the called function.                    *)
(***************************************************************************)
EXTENDS Integers, Sequences, FiniteSets, TLC

(***************************************************************************)
(* Bounds of the model                                                     *)
(***************************************************************************)
\* timestamps iat/nbf/exp are drawn from 0..MaxTime (and one 3-digit value)
MaxTime == 1
\* claim strings (iss, AC payload) have at most MaxStrLen characters
MaxStrLen == 1
\* a token has at most MaxParts '.'-separated parts
MaxParts == 4
\* table names and record keys have at most MaxIdLen characters
MaxIdLen == 2

(***************************************************************************)
(* Characters and bytes                                                    *)
(***************************************************************************)
\* the printable ASCII characters, Printable[i] has code 31 + i (code 96, the
\* grave accent, cannot be written in a string here and is spelled out)
Printable ==
  << " ", "!", "\"", "#", "$", "%", "&", "'", "(", ")", "*", "+",
     ",", "-", ".", "/", "0", "1", "2", "3", "4", "5", "6", "7",
     "8", "9", ":", ";", "<", "=", ">", "?", "@", "A", "B", "C",
     "D", "E", "F", "G", "H", "I", "J", "K", "L", "M", "N", "O",
     "P", "Q", "R", "S", "T", "U", "V", "W", "X", "Y", "Z", "[",
     "\\", "]", "^", "_", "GRAVE", "a", "b", "c", "d", "e", "f", "g",
     "h", "i", "j", "k", "l", "m", "n", "o", "p", "q", "r", "s",
     "t", "u", "v", "w", "x", "y", "z", "{", "|", "}", "~" >>

PrintableSet == { Printable[i] : i \in 1..Len(Printable) }

OrdTable == [ c \in PrintableSet |->
                31 + (CHOOSE i \in 1..Len(Printable) : Printable[i] = c) ]

\* the byte of an ASCII character
Ord(c) == OrdTable[c]

\* the character of a printable byte
Chr(b) == Printable[b - 31]

IsPrintableByte(b) == b >= 32 /\ b <= 126

\* str::as_bytes for ASCII text
Bytes(s) == [ i \in 1..Len(s) |-> Ord(s[i]) ]

Range(s) == { s[i] : i \in 1..Len(s) }

RECURSIVE Join(_, _)
\* the segments joined by the separator
Join(segs, sep) ==
  IF Len(segs) = 0 THEN <<>>
  ELSE IF Len(segs) = 1 THEN segs[1]
  ELSE segs[1] \o <<sep>> \o Join(Tail(segs), sep)

(***************************************************************************)
(* base64, URL-safe alphabet, no padding (URL_SAFE_NO_PAD, lib.rs:4,27)    *)
(***************************************************************************)
URL_SAFE ==
  << "A", "B", "C", "D", "E", "F", "G", "H", "I", "J", "K", "L", "M", "N", "O", "P",
     "Q", "R", "S", "T", "U", "V", "W", "X", "Y", "Z", "a", "b", "c", "d", "e", "f",
     "g", "h", "i", "j", "k", "l", "m", "n", "o", "p", "q", "r", "s", "t", "u", "v",
     "w", "x", "y", "z", "0", "1", "2", "3", "4", "5", "6", "7", "8", "9", "-", "_" >>

UrlSafeSet == { URL_SAFE[i] : i \in 1..Len(URL_SAFE) }

SextetTable == [ c \in UrlSafeSet |->
                   (CHOOSE i \in 1..Len(URL_SAFE) : URL_SAFE[i] = c) - 1 ]

\* the bytes at 1..Len(bytes), zero beyond (the encoder's zero fill)
ByteAt(bytes, i) == IF i <= Len(bytes) THEN bytes[i] ELSE 0

\* Engine::encode of URL_SAFE_NO_PAD: 3 bytes -> 4 symbols, a final group of
\* 1 or 2 bytes -> 2 or 3 symbols, no '=' appended
Base64Encode(bytes) ==
  LET n == (Len(bytes) * 4 + 2) \div 3
      Sym(j) ==
        LET g  == (j - 1) \div 4
            k  == (j - 1) % 4
            b1 == ByteAt(bytes, 3 * g + 1)
            b2 == ByteAt(bytes, 3 * g + 2)
            b3 == ByteAt(bytes, 3 * g + 3)
        IN CASE k = 0 -> b1 \div 4
             [] k = 1 -> (b1 % 4) * 16 + b2 \div 16
             [] k = 2 -> (b2 % 16) * 4 + b3 \div 64
             [] OTHER -> b3 % 64
  IN [ j \in 1..n |-> URL_SAFE[Sym(j) + 1] ]

\* Engine::decode of URL_SAFE_NO_PAD: a symbol outside the alphabet ('=' too:
\* the engine requires no padding), a length of 1 mod 4, or non-zero trailing
\* bits in the last symbol are DecodeErrors
Base64Decode(seg) ==
  LET n  == Len(seg)
      sx == [ i \in 1..n |-> IF seg[i] \in UrlSafeSet THEN SextetTable[seg[i]] ELSE 0 ]
      m  == (n * 3) \div 4
      Byte(i) ==
        LET g == (i - 1) \div 3
            k == (i - 1) % 3
        IN CASE k = 0 -> sx[4 * g + 1] * 4 + sx[4 * g + 2] \div 16
             [] k = 1 -> (sx[4 * g + 2] % 16) * 16 + sx[4 * g + 3] \div 4
             [] OTHER -> (sx[4 * g + 3] % 4) * 64 + sx[4 * g + 4]
  IN IF \E i \in 1..n : seg[i] \notin UrlSafeSet
       THEN [ok |-> FALSE, bytes |-> <<>>]
     ELSE IF n % 4 = 1
       THEN [ok |-> FALSE, bytes |-> <<>>]
     ELSE IF n % 4 = 2 /\ sx[n] % 16 # 0
       THEN [ok |-> FALSE, bytes |-> <<>>]
     ELSE IF n % 4 = 3 /\ sx[n] % 4 # 0
       THEN [ok |-> FALSE, bytes |-> <<>>]
     ELSE [ok |-> TRUE, bytes |-> [ i \in 1..m |-> Byte(i) ]]

(***************************************************************************)
(* token.split('.') and Iterator::nth(1) (lib.rs:23-25)                    *)
(***************************************************************************)
\* the positions of the separator in s
Separators(s) == { i \in 1..Len(s) : s[i] = "." }

\* the position of the k-th separator of s
SeparatorAt(s, k) ==
  CHOOSE p \in Separators(s) : Cardinality({ q \in Separators(s) : q < p }) = k - 1

\* str::split('.'): the text between consecutive separators, so always at
\* least one segment, empty segments kept
Split(token) ==
  LET n == Cardinality(Separators(token)) + 1
      First(k) == IF k = 1 THEN 1 ELSE SeparatorAt(token, k - 1) + 1
      Last(k) == IF k = n THEN Len(token) ELSE SeparatorAt(token, k) - 1
  IN [ k \in 1..n |-> SubSeq(token, First(k), Last(k)) ]

\* parts.nth(0)
NthZero(parts) ==
  IF Len(parts) >= 1 THEN [some |-> TRUE, seg |-> parts[1]]
  ELSE [some |-> FALSE, seg |-> <<>>]

\* parts.nth(1): the second segment, None when there is none
Nth1(parts) ==
  IF Len(parts) >= 2 THEN [some |-> TRUE, seg |-> parts[2]]
  ELSE [some |-> FALSE, seg |-> <<>>]


(***************************************************************************)
(* SurrealJWTClaims<T> (types.rs:20-34) and its derived Serialize          *)
(*                                                                         *)
(* The access-claims type T is one of                                      *)
(*   "String"        T = String                                            *)
(*   "OptionString"  T = Option<String>                                    *)
(*   "Unit"          T = ()                                                *)
(* and a value of T is [some, s]: String s is [some |-> TRUE, s |-> s],    *)
(* None and () are NoneAC.                                                 *)
(***************************************************************************)
AccessTypes == {"String", "OptionString", "Unit"}

NoneAC == [some |-> FALSE, s |-> <<>>]

SomeAC(s) == [some |-> TRUE, s |-> s]

\* the fields in declaration order: Rust name, wire name (serde rename), type
Fields ==
  << [name |-> "iat", wire |-> <<"i", "a", "t">>, ty |-> "u64"],
     [name |-> "nbf", wire |-> <<"n", "b", "f">>, ty |-> "u64"],
     [name |-> "exp", wire |-> <<"e", "x", "p">>, ty |-> "u64"],
     [name |-> "iss", wire |-> <<"i", "s", "s">>, ty |-> "String"],
     [name |-> "jti", wire |-> <<"j", "t", "i">>, ty |-> "String"],
     [name |-> "ns",  wire |-> <<"N", "S">>,      ty |-> "String"],
     [name |-> "db",  wire |-> <<"D", "B">>,      ty |-> "String"],
     [name |-> "ac",  wire |-> <<"A", "C">>,      ty |-> "T"],
     [name |-> "id",  wire |-> <<"I", "D">>,      ty |-> "String"] >>

NumFields == Len(Fields)

\* the record a deserialization starts from: no field set yet
EmptyClaims ==
  [iat |-> 0, nbf |-> 0, exp |-> 0, iss |-> <<>>, jti |-> <<>>,
   ns |-> <<>>, db |-> <<>>, ac |-> NoneAC, id |-> <<>>]

RECURSIVE DecimalDigits(_)
\* itoa: the decimal digits of an unsigned integer
DecimalDigits(n) ==
  IF n < 10 THEN <<Printable[n + 17]>>
  ELSE Append(DecimalDigits(n \div 10), Printable[(n % 10) + 17])

RECURSIVE EscapeJson(_)
\* serde_json's string escaping, for printable ASCII: '"' and '\' get a '\'
EscapeJson(s) ==
  IF s = <<>> THEN <<>>
  ELSE (IF Head(s) \in {"\"", "\\"} THEN <<"\\", Head(s)>> ELSE <<Head(s)>>)
       \o EscapeJson(Tail(s))

\* serialize_str
JsonString(s) == <<"\"">> \o EscapeJson(s) \o <<"\"">>

JsonNull == <<"n", "u", "l", "l">>

\* T::serialize: a String as a JSON string, None and () as null
JsonAccess(T, ac) ==
  IF T = "String" \/ (T = "OptionString" /\ ac.some) THEN JsonString(ac.s)
  ELSE JsonNull

\* the JSON text of field i of the claims
JsonField(T, claims, i) ==
  LET f == Fields[i]
  IN CASE f.ty = "u64"    -> DecimalDigits(claims[f.name])
       [] f.ty = "String" -> JsonString(claims[f.name])
       [] OTHER           -> JsonAccess(T, claims.ac)

\* the members of the object the derived Serialize writes, in order
Members(T, claims) ==
  [ i \in 1..NumFields |-> [key |-> Fields[i].wire, val |-> JsonField(T, claims, i)] ]

\* a JSON object with the given members: {"k":v,"k":v}
JsonObject(members) ==
  <<"{">>
  \o Join([ i \in 1..Len(members) |->
              JsonString(members[i].key) \o <<":">> \o members[i].val ], ",")
  \o <<"}">>

\* a JSON array of the members' values: [v,v]
JsonArray(members) ==
  <<"[">> \o Join([ i \in 1..Len(members) |-> members[i].val ], ",") \o <<"]">>

\* serde_json::to_string(&claims)
SerializeClaims(T, claims) == JsonObject(Members(T, claims))

(***************************************************************************)
(* serde_json::from_slice::<SurrealJWTClaims<T>> (lib.rs:29): serde_json's *)
(* streaming reader driven by the derived Deserialize of types.rs.         *)
(* A result is [ok, pos, v]: pos is the position after what was read.      *)
(* Text is printable ASCII: the escapes \b \f \n \r \t \u and bytes above  *)
(* 126 stand for characters outside it and are never drawn as input.       *)
(***************************************************************************)
Fail == [ok |-> FALSE, pos |-> 0, v |-> <<>>]

Good(pos, v) == [ok |-> TRUE, pos |-> pos, v |-> v]

Whitespace == {Ord(" "), 9, 10, 13}

IsDigit(x) == x >= Ord("0") /\ x <= Ord("9")

\* whether position p of b holds the character c
At(b, p, c) == p <= Len(b) /\ b[p] = Ord(c)

RECURSIVE SkipWs(_, _)
\* parse_whitespace: the first position at or after p holding no whitespace
SkipWs(b, p) ==
  IF p <= Len(b) /\ b[p] \in Whitespace THEN SkipWs(b, p + 1) ELSE p

\* parse_ident: the literal lit at p
ParseLiteral(b, p, lit, v) ==
  IF p + Len(lit) - 1 <= Len(b) /\ \A i \in 1..Len(lit) : b[p + i - 1] = Ord(lit[i])
    THEN Good(p + Len(lit), v)
    ELSE Fail

RECURSIVE StrBody(_, _, _)
\* the characters of a string up to its closing quote, p being after the
\* opening quote
StrBody(b, p, acc) ==
  IF p > Len(b) THEN Fail
  ELSE IF b[p] = Ord("\"") THEN Good(p + 1, acc)
  ELSE IF b[p] = Ord("\\") THEN
    IF p + 1 <= Len(b) /\ b[p + 1] \in {Ord("\""), Ord("\\"), Ord("/")}
      THEN StrBody(b, p + 2, Append(acc, Chr(b[p + 1])))
      ELSE Fail
  ELSE IF ~IsPrintableByte(b[p]) THEN Fail
  ELSE StrBody(b, p + 1, Append(acc, Chr(b[p])))

\* String::deserialize: a JSON string, anything else is an invalid type
ParseString(b, p) ==
  IF At(b, p, "\"") THEN StrBody(b, p + 1, <<>>) ELSE Fail

RECURSIVE Digits(_, _, _)
\* the run of digits from p on, and its value
Digits(b, p, acc) ==
  IF p <= Len(b) /\ IsDigit(b[p])
    THEN Digits(b, p + 1, acc * 10 + (b[p] - Ord("0")))
    ELSE Good(p, acc)

\* whether a fraction or an exponent follows at p: the number is a float
IsFloatTail(b, p) == At(b, p, ".") \/ At(b, p, "e") \/ At(b, p, "E")

\* an integer literal d is a u64 unless a fraction or an exponent follows
IntegerOnly(b, d) == IF IsFloatTail(b, d.pos) THEN Fail ELSE d

\* u64::deserialize: an unsigned integer literal; a sign, a float, a leading
\* zero before a digit, or any other value is an error
ParseU64(b, p) ==
  IF p > Len(b) \/ ~IsDigit(b[p]) THEN Fail
  ELSE IF b[p] = Ord("0") THEN
    IF p + 1 <= Len(b) /\ IsDigit(b[p + 1]) THEN Fail
    ELSE IntegerOnly(b, Good(p + 1, 0))
  ELSE IntegerOnly(b, Digits(b, p, 0))

\* Some(s) of a String read
AsSome(r) == IF r.ok THEN Good(r.pos, SomeAC(r.v)) ELSE Fail

\* T::deserialize. String: a JSON string. Option<String>: null is None, any
\* other value is read as a String. (): null.
ParseAccess(T, b, p) ==
  IF T = "String" THEN AsSome(ParseString(b, p))
  ELSE IF T = "OptionString" /\ ~At(b, p, "n") THEN AsSome(ParseString(b, p))
  ELSE ParseLiteral(b, p, JsonNull, NoneAC)

\* the value read is dropped
Dropped(r) == IF r.ok THEN Good(r.pos, <<>>) ELSE Fail

\* digits are required between from and the end d of the run read there
SomeDigits(from, d) == IF d.pos = from THEN Fail ELSE d

\* exp?: 'e' or 'E', a sign or none, digits
SkipExponent(b, f) ==
  IF ~f.ok THEN Fail
  ELSE IF At(b, f.pos, "e") \/ At(b, f.pos, "E") THEN
    IF At(b, f.pos + 1, "+") \/ At(b, f.pos + 1, "-")
      THEN SomeDigits(f.pos + 2, Digits(b, f.pos + 2, 0))
      ELSE SomeDigits(f.pos + 1, Digits(b, f.pos + 1, 0))
  ELSE f

\* frac?: '.', digits
SkipFraction(b, i) ==
  IF At(b, i, ".") THEN SomeDigits(i + 1, Digits(b, i + 1, 0)) ELSE Good(i, 0)

\* int: 0, or a non-zero digit and digits
SkipInteger(b, p) ==
  IF p > Len(b) \/ ~IsDigit(b[p]) THEN Fail
  ELSE IF b[p] = Ord("0") THEN
    IF p + 1 <= Len(b) /\ IsDigit(b[p + 1]) THEN Fail ELSE Good(p + 1, 0)
  ELSE Digits(b, p, 0)

\* the fraction and exponent after the integer part i
SkipNumberTail(b, i) ==
  IF i.ok THEN Dropped(SkipExponent(b, SkipFraction(b, i.pos))) ELSE Fail

\* a number of any form: -? int frac? exp?
SkipNumber(b, p) ==
  SkipNumberTail(b, SkipInteger(b, IF At(b, p, "-") THEN p + 1 ELSE p))

RECURSIVE SkipValue(_, _)
RECURSIVE SkipElements(_, _, _)
RECURSIVE SkipMembers(_, _, _)

\* after an element r of an array: ',' and the next element, or ']'
SkipElementsNext(b, r, q) ==
  IF ~r.ok THEN Fail
  ELSE IF At(b, q, ",") THEN SkipElements(b, q + 1, FALSE)
  ELSE IF At(b, q, "]") THEN Good(q + 1, <<>>)
  ELSE Fail

\* after a member's value r of an object: ',' and the next member, or '}'
SkipMembersNext(b, r, q) ==
  IF ~r.ok THEN Fail
  ELSE IF At(b, q, ",") THEN SkipMembers(b, q + 1, FALSE)
  ELSE IF At(b, q, "}") THEN Good(q + 1, <<>>)
  ELSE Fail

\* the value r read, and the first position after it that is no whitespace
AfterElement(b, r) == SkipElementsNext(b, r, IF r.ok THEN SkipWs(b, r.pos) ELSE 0)

AfterMember(b, r) == SkipMembersNext(b, r, IF r.ok THEN SkipWs(b, r.pos) ELSE 0)

\* the ':' at c after a member's key k, and the member's value
SkipMemberValue(b, k, c) ==
  IF k.ok /\ At(b, c, ":") THEN AfterMember(b, SkipValue(b, c + 1)) ELSE Fail

SkipMember(b, k) == SkipMemberValue(b, k, IF k.ok THEN SkipWs(b, k.pos) ELSE 0)

\* the value at p, where no whitespace is
SkipValueAt(b, p) ==
  IF p > Len(b) THEN Fail
  ELSE IF b[p] = Ord("\"") THEN Dropped(ParseString(b, p))
  ELSE IF b[p] = Ord("n") THEN ParseLiteral(b, p, JsonNull, <<>>)
  ELSE IF b[p] = Ord("t") THEN ParseLiteral(b, p, <<"t", "r", "u", "e">>, <<>>)
  ELSE IF b[p] = Ord("f") THEN ParseLiteral(b, p, <<"f", "a", "l", "s", "e">>, <<>>)
  ELSE IF b[p] = Ord("-") \/ IsDigit(b[p]) THEN SkipNumber(b, p)
  ELSE IF b[p] = Ord("[") THEN SkipElements(b, p + 1, TRUE)
  ELSE IF b[p] = Ord("{") THEN SkipMembers(b, p + 1, TRUE)
  ELSE Fail

\* IgnoredAny: any well-formed JSON value, read and dropped
SkipValue(b, p) == SkipValueAt(b, SkipWs(b, p))

SkipElementsAt(b, p, first) ==
  IF p > Len(b) THEN Fail
  ELSE IF first /\ b[p] = Ord("]") THEN Good(p + 1, <<>>)
  ELSE AfterElement(b, SkipValue(b, p))

\* the elements of an array after its '[', first: none read yet
SkipElements(b, p, first) == SkipElementsAt(b, SkipWs(b, p), first)

SkipMembersAt(b, p, first) ==
  IF p > Len(b) THEN Fail
  ELSE IF first /\ b[p] = Ord("}") THEN Good(p + 1, <<>>)
  ELSE SkipMember(b, ParseString(b, p))

\* the members of an object after its '{', first: none read yet
SkipMembers(b, p, first) == SkipMembersAt(b, SkipWs(b, p), first)

\* the derived field visitor: the index of the field with this wire name, 0
\* for a name that is none of the nine (matched exactly, case included)
FieldIndex(key) ==
  IF \E i \in 1..NumFields : Fields[i].wire = key
    THEN CHOOSE i \in 1..NumFields : Fields[i].wire = key
    ELSE 0

\* the value of field i read at p
ParseField(T, i, b, p) ==
  CASE Fields[i].ty = "u64"    -> ParseU64(b, p)
    [] Fields[i].ty = "String" -> ParseString(b, p)
    [] OTHER                   -> ParseAccess(T, b, p)

\* as MissingField, under #[serde(default)]
MissingFieldDefaulted(T, i) ==
  [ok |-> TRUE, v |-> EmptyClaims[Fields[i].name]]

\* serde's missing_field for a field without #[serde(default)]: the field's
\* type is deserialized from a deserializer that holds nothing, which is an
\* error for every type but Option, where it gives None
MissingField(T, i) ==
  IF Fields[i].ty = "T" /\ T = "OptionString"
    THEN [ok |-> TRUE, v |-> NoneAC]
    ELSE [ok |-> FALSE, v |-> <<>>]

\* the end of visit_map: every field not seen goes through missing_field
\* (the value it gives, None, is the one acc starts with)
FinishMap(T, acc, seen, pos) ==
  IF \A i \in (1..NumFields) \ seen : MissingField(T, i).ok
    THEN Good(pos, acc)
    ELSE Fail

RECURSIVE VisitMap(_, _, _, _, _, _)

\* after a member: ',' and the next member, or '}'
MapSeparator(T, b, q, acc, seen) ==
  IF At(b, q, ",") THEN VisitMap(T, b, q + 1, acc, seen, FALSE)
  ELSE IF At(b, q, "}") THEN FinishMap(T, acc, seen, q + 1)
  ELSE Fail

\* the value r of an unknown key is dropped
MapIgnore(T, b, r, acc, seen) ==
  IF r.ok THEN MapSeparator(T, b, SkipWs(b, r.pos), acc, seen) ELSE Fail

\* the value r of field i is stored
MapStore(T, b, i, r, acc, seen) ==
  IF r.ok
    THEN MapSeparator(T, b, SkipWs(b, r.pos),
                      [acc EXCEPT ![Fields[i].name] = r.v], seen \cup {i})
    ELSE Fail

\* the ':' at c and the value of the member whose key is field i (0: unknown);
\* a field seen before is a duplicate_field error
MapValue(T, b, i, c, acc, seen) ==
  IF ~At(b, c, ":") \/ i \in seen THEN Fail
  ELSE IF i = 0 THEN MapIgnore(T, b, SkipValue(b, c + 1), acc, seen)
  ELSE MapStore(T, b, i, ParseField(T, i, b, SkipWs(b, c + 1)), acc, seen)

\* the member whose key k was read
MapMember(T, b, k, acc, seen) ==
  IF k.ok THEN MapValue(T, b, FieldIndex(k.v), SkipWs(b, k.pos), acc, seen)
  ELSE Fail

MapKey(T, b, p, acc, seen, first) ==
  IF p > Len(b) THEN Fail
  ELSE IF first /\ b[p] = Ord("}") THEN FinishMap(T, acc, seen, p + 1)
  ELSE MapMember(T, b, ParseString(b, p), acc, seen)

\* the derived visit_map over an object after its '{': a known key is read
\* with its field's type, an unknown key's value is skipped
VisitMap(T, b, p, acc, seen, first) == MapKey(T, b, SkipWs(b, p), acc, seen, first)

RECURSIVE VisitSeq(_, _, _, _, _)

\* after element i: ',' and the next field, or ']' after the last field
SeqSeparator(T, b, q, acc, i) ==
  IF At(b, q, ",") /\ i < NumFields THEN VisitSeq(T, b, q + 1, acc, i + 1)
  ELSE IF At(b, q, "]") /\ i = NumFields THEN Good(q + 1, acc)
  ELSE Fail

SeqStore(T, b, i, r, acc) ==
  IF r.ok
    THEN SeqSeparator(T, b, SkipWs(b, r.pos), [acc EXCEPT ![Fields[i].name] = r.v], i)
    ELSE Fail

SeqElement(T, b, p, acc, i) ==
  IF p > Len(b) \/ b[p] = Ord("]") THEN Fail
  ELSE SeqStore(T, b, i, ParseField(T, i, b, p), acc)

\* the derived visit_seq over an array after its '[': the nine fields in
\* declaration order, fewer or more elements are an error
VisitSeq(T, b, p, acc, i) == SeqElement(T, b, SkipWs(b, p), acc, i)

StructAt(T, b, p) ==
  IF At(b, p, "{") THEN VisitMap(T, b, p + 1, EmptyClaims, {}, TRUE)
  ELSE IF At(b, p, "[") THEN VisitSeq(T, b, p + 1, EmptyClaims, 1)
  ELSE Fail

\* deserialize_struct: an object goes to visit_map, an array to visit_seq,
\* any other value is an invalid type
DeserializeStruct(T, b) == StructAt(T, b, SkipWs(b, 1))

\* as End, with the token's validity window enforced
EndValidated(b, r) ==
  IF r.ok /\ SkipWs(b, r.pos) > Len(b) /\ r.v.nbf <= r.v.exp
    THEN [ok |-> TRUE, claims |-> r.v]
    ELSE [ok |-> FALSE, claims |-> EmptyClaims]

\* Deserializer::end: only whitespace may follow the value r
End(b, r) ==
  IF r.ok /\ SkipWs(b, r.pos) > Len(b)
    THEN [ok |-> TRUE, claims |-> r.v]
    ELSE [ok |-> FALSE, claims |-> EmptyClaims]

\* serde_json::from_slice: the value, then Deserializer::end
FromSlice(T, b) == End(b, DeserializeStruct(T, b))

(***************************************************************************)
(* surrealdb::RecordId as the adapters use it: a table name and a string   *)
(* key. Its Display (to_string) writes table ':' key, each part through    *)
(* the library's record-id escaping: a part that is not made of ASCII      *)
(* letters, digits and '_' only, or that is made of digits only (the empty *)
(* part too), is written between angle brackets, a closing bracket inside  *)
(* it preceded by '\'. The characters "<" and ">" of the model are the     *)
(* brackets U+27E8 and U+27E9.                                             *)
(***************************************************************************)
DigitChars == {"0", "1", "2", "3", "4", "5", "6", "7", "8", "9"}

IdentChars ==
  { Printable[i] : i \in 34..59 } \cup { Printable[i] : i \in 66..91 }
    \cup DigitChars \cup {"_"}

RECURSIVE EscapeClose(_)
\* str::replace of the closing bracket by its escaped form
EscapeClose(s) ==
  IF s = <<>> THEN <<>>
  ELSE (IF Head(s) = ">" THEN <<"\\", ">">> ELSE <<Head(s)>>) \o EscapeClose(Tail(s))

\* the library's escaping of a table name or a string key
EscapeRid(s) ==
  IF (\E i \in 1..Len(s) : s[i] \notin IdentChars)
       \/ (\A i \in 1..Len(s) : s[i] \in DigitChars)
    THEN <<"<">> \o EscapeClose(s) \o <<">">>
    ELSE s

\* a key rendering that keeps the table: what the naked form must not be
KeyToStringQualified(id) == EscapeRid(id.tb) \o <<":">> \o EscapeRid(id.key)

\* id.key().to_string()
KeyToString(id) == EscapeRid(id.key)

\* a full rendering that drops the table: what the full form must not be
RecordIdToStringKeyOnly(id) == EscapeRid(id.key)

\* id.to_string()
RecordIdToString(id) == EscapeRid(id.tb) \o <<":">> \o EscapeRid(id.key)

\* Option<RecordId>
NoId == [some |-> FALSE, tb |-> <<>>, key |-> <<>>]

SomeId(tb, key) == [some |-> TRUE, tb |-> tb, key |-> key]

\* what a serializer writes and a deserializer reads: unset (nothing yet),
\* JSON null, a JSON string, or the structured form RecordId's own
\* Serialize writes (table and key as separate members)
WireUnset == [k |-> "unset", s |-> <<>>, tb |-> <<>>, key |-> <<>>]

WireNull == [k |-> "null", s |-> <<>>, tb |-> <<>>, key |-> <<>>]

WireStr(s) == [k |-> "str", s |-> s, tb |-> <<>>, key |-> <<>>]

WireThing(tb, key) == [k |-> "thing", s |-> <<>>, tb |-> tb, key |-> key]

\* a deserializer's result: pending, Err, Ok(None) or Ok(Some(s)) / Ok(s)
ResPending == [st |-> "pending", some |-> FALSE, s |-> <<>>]

ResErr == [st |-> "err", some |-> FALSE, s |-> <<>>]

ResNone == [st |-> "ok", some |-> FALSE, s |-> <<>>]

ResSome(s) == [st |-> "ok", some |-> TRUE, s |-> s]

\* as DeserializeOptionRecordId, a string "table:key" parsed at its first ':'
DeserializeOptionRecordIdFromText(w) ==
  CASE w.k = "null"  -> [ok |-> TRUE, id |-> NoId]
    [] w.k = "thing" -> [ok |-> TRUE, id |-> SomeId(w.tb, w.key)]
    [] OTHER         ->
         IF \E i \in 1..Len(w.s) : w.s[i] = ":"
           THEN LET i == CHOOSE i \in 1..Len(w.s) :
                           w.s[i] = ":" /\ \A j \in 1..(i - 1) : w.s[j] # ":"
                IN [ok |-> TRUE,
                    id |-> SomeId(SubSeq(w.s, 1, i - 1), SubSeq(w.s, i + 1, Len(w.s)))]
           ELSE [ok |-> FALSE, id |-> NoId]

\* Option::<RecordId>::deserialize: null is None; the structured form is
\* Some(id); RecordId does not deserialize from a string
DeserializeOptionRecordId(w) ==
  CASE w.k = "null"  -> [ok |-> TRUE, id |-> NoId]
    [] w.k = "thing" -> [ok |-> TRUE, id |-> SomeId(w.tb, w.key)]
    [] OTHER         -> [ok |-> FALSE, id |-> NoId]

\* as deserialize_record_id_naked, None giving an empty key
deserialize_record_id_naked_lenient(w) ==
  LET value == DeserializeOptionRecordId(w)
  IN IF ~value.ok THEN ResErr
     ELSE IF value.id.some THEN ResSome(KeyToString(value.id))
     ELSE ResSome(<<>>)

\* lib.rs:48-57
deserialize_record_id_naked(w) ==
  LET value == DeserializeOptionRecordId(w)
  IN IF ~value.ok THEN ResErr
     ELSE IF value.id.some THEN ResSome(KeyToString(value.id))
     ELSE ResErr

\* as deserialize_record_id_naked_option, None refused
deserialize_record_id_naked_option_strict(w) ==
  LET value == DeserializeOptionRecordId(w)
  IN IF ~value.ok THEN ResErr
     ELSE IF value.id.some THEN ResSome(KeyToString(value.id))
     ELSE ResErr

\* lib.rs:74-86
deserialize_record_id_naked_option(w) ==
  LET value == DeserializeOptionRecordId(w)
  IN IF ~value.ok THEN ResErr
     ELSE IF value.id.some THEN ResSome(KeyToString(value.id))
     ELSE ResNone

\* lib.rs:102-107
serialize_record_id(id) == WireStr(RecordIdToString(id))

\* lib.rs:123-134
serialize_record_id_option(id) ==
  IF id.some THEN WireStr(RecordIdToString(id)) ELSE WireNull

\* lib.rs:150-155
serialize_record_id_naked(id) == WireStr(KeyToString(id))

\* lib.rs:171-182
serialize_record_id_naked_option(id) ==
  IF id.some THEN WireStr(KeyToString(id)) ELSE WireNull

(***************************************************************************)
(* The caller's inputs                                                     *)
(***************************************************************************)
\* all texts over chars of at most n characters
Texts(chars, n) == UNION { [1..k -> chars] : k \in 0..n }

\* claim strings: a plain character and one that JSON escapes
ClaimTexts == Texts({"x", "\""}, MaxStrLen)

\* the values of T
AccessValues(T) ==
  CASE T = "String"       -> { SomeAC(t) : t \in ClaimTexts }
    [] T = "OptionString" -> { SomeAC(t) : t \in ClaimTexts } \cup {NoneAC}
    [] OTHER              -> {NoneAC}

\* claims records: no relation between the timestamps is imposed
ClaimsOf(T) ==
  [iat : (0..MaxTime) \cup {120}, nbf : 0..MaxTime, exp : 0..MaxTime,
   iss : ClaimTexts, jti : {<<"j">>}, ns : {<<"n", "s">>}, db : {<<"d", "b">>},
   ac : AccessValues(T), id : {<<"u">>}]

\* the claims of the specification's example, with a value of T
ExampleClaims(T) ==
  [iat |-> 1, nbf |-> 2, exp |-> 3, iss |-> <<"i", "s", "s">>, jti |-> <<"j">>,
   ns |-> <<"n", "s">>, db |-> <<"d", "b">>,
   ac |-> IF T = "Unit" THEN NoneAC ELSE SomeAC(<<"r">>), id |-> <<"u">>]

\* the lower-case form of the upper-case wire names
LowerCase(key) ==
  [ i \in 1..Len(key) |->
      IF Ord(key[i]) >= Ord("A") /\ Ord(key[i]) <= Ord("Z")
        THEN Chr(Ord(key[i]) + 32) ELSE key[i] ]

\* a value of another type than field i has
WrongValue(i) ==
  IF Fields[i].ty = "u64" THEN JsonString(<<"1">>) ELSE <<"7">>

Without(seq, i) == SubSeq(seq, 1, i - 1) \o SubSeq(seq, i + 1, Len(seq))

\* the shapes of payload a caller may send; field is the member a shape
\* changes (0: none)
Shapes ==
  [shape : {"drop", "dup", "wrong", "negative", "float"}, field : 1..NumFields]
  \cup [shape : {"lower"}, field : 6..NumFields]
  \cup [shape : {"exact", "extra", "array", "short", "long", "spaced", "trailing",
                 "truncated", "scalar", "empty", "binary"}, field : {0}]

\* the payload bytes of a shape, built from the claims' members
PayloadBytes(T, claims, shape, i) ==
  LET m == Members(T, claims)
      text == JsonObject(m)
  IN CASE shape = "exact"     -> Bytes(text)
       [] shape = "drop"      -> Bytes(JsonObject(Without(m, i)))
       [] shape = "lower"     ->
            Bytes(JsonObject([m EXCEPT ![i].key = LowerCase(m[i].key)]))
       [] shape = "dup"       -> Bytes(JsonObject(Append(m, m[i])))
       [] shape = "wrong"     ->
            Bytes(JsonObject([m EXCEPT ![i].val = WrongValue(i)]))
       [] shape = "negative"  ->
            Bytes(JsonObject([m EXCEPT ![i].val = <<"-", "1">>]))
       [] shape = "float"     ->
            Bytes(JsonObject([m EXCEPT ![i].val = <<"1", ".", "5">>]))
       [] shape = "extra"     ->
            Bytes(JsonObject(<<[key |-> <<"z">>,
                                val |-> <<"[", "1", ",", "{", "}", "]">>]>> \o m))
       [] shape = "array"     -> Bytes(JsonArray(m))
       [] shape = "short"     -> Bytes(JsonArray(Without(m, NumFields)))
       [] shape = "long"      -> Bytes(JsonArray(Append(m, m[1])))
       [] shape = "spaced"    -> Bytes(<<" ">> \o text \o <<" ">>)
       [] shape = "trailing"  -> Bytes(text \o <<"x">>)
       [] shape = "truncated" -> Bytes(SubSeq(text, 1, Len(text) - 1))
       [] shape = "scalar"    -> Bytes(<<"1">>)
       [] shape = "empty"     -> <<>>
       [] OTHER               -> <<255>>

\* how the caller writes the second segment: "valid" is the non-padded
\* URL-safe base64 of the payload, the others are not valid encodings
Encodings == {"valid", "bang", "padded", "literal", "length", "bits"}

Segment(enc, bytes) ==
  CASE enc = "valid"   -> Base64Encode(bytes)
    [] enc = "bang"    -> Base64Encode(bytes) \o <<"!">>
    [] enc = "padded"  -> Base64Encode(bytes) \o <<"=">>
    [] enc = "literal" -> <<"i", "n", "v", "a", "l", "i", "d", "!", "!">>
    [] enc = "length"  -> <<"Q", "U", "J", "D", "R">>
    [] OTHER           -> <<"Q", "R">>

Headers == { <<>>, <<"a">>, <<"n", "o", "-", "d", "o", "t", "s">> }

Signatures == { <<>>, <<"c">> }

\* a decode call: the type T, the claims, the payload's shape, the encoding
\* of the second part, the first and third parts, and the number n of parts
DecodeInputs ==
  UNION { { [T |-> T, claims |-> c, shape |-> "exact", field |-> 0,
               enc |-> "valid", header |-> <<"a">>, sig |-> <<"c">>, n |-> 3] :
                  c \in ClaimsOf(T) } : T \in AccessTypes }
  \cup
  { [T |-> T, claims |-> ExampleClaims(T), shape |-> sh.shape, field |-> sh.field,
     enc |-> "valid", header |-> <<"a">>, sig |-> <<"c">>, n |-> 3] :
        T \in AccessTypes, sh \in Shapes }
  \cup
  { [T |-> "String", claims |-> ExampleClaims("String"), shape |-> "exact",
     field |-> 0, enc |-> e, header |-> <<"a">>, sig |-> <<"c">>, n |-> n] :
        e \in Encodings, n \in 2..MaxParts }
  \cup
  { [T |-> T, claims |-> ExampleClaims(T), shape |-> "exact", field |-> 0,
     enc |-> "valid", header |-> h, sig |-> g, n |-> n] :
        T \in AccessTypes, h \in Headers, g \in Signatures, n \in 1..MaxParts }

\* the token of a decode call: the first n of header, payload segment,
\* signature and further parts, joined by '.'
TokenOf(in) ==
  LET seg == Segment(in.enc, PayloadBytes(in.T, in.claims, in.shape, in.field))
      all == <<in.header, seg, in.sig>> \o [ i \in 1..(in.n - 3) |-> <<"x">> ]
  IN Join(SubSeq(all, 1, in.n), ".")

\* an input of the right type for the codec's idle half of the state
NoDecode ==
  [T |-> "Unit", claims |-> EmptyClaims, shape |-> "empty", field |-> 0,
   enc |-> "valid", header |-> <<>>, sig |-> <<>>, n |-> 0]

\* keys: texts of a letter, a digit, the separator, a character that needs
\* escaping, and the closing bracket
IdTexts == Texts({"a", "1", ":", "-", ">"}, MaxIdLen)

\* table names: empty, plain, all digits, with the separator, with the
\* closing bracket
TableTexts == { <<>>, <<"a">>, <<"1">>, <<"a", ":">>, <<">">> }

RecordIds == { SomeId(tb, key) : tb \in TableTexts, key \in IdTexts }

\* wire values a caller hands to a deserializer directly
WireInputs ==
  {WireNull} \cup { WireStr(t) : t \in IdTexts }
    \cup { WireThing(id.tb, id.key) : id \in RecordIds }

(***************************************************************************)
(* State                                                                   *)
(***************************************************************************)
VARIABLES
  api,                    \* "decode" or "codec": the half of the library called
  given,                  \* the decode call's input as the caller built it
  token,                  \* decode_payload_insecurely's argument
  pc,                     \* the step decode_payload_insecurely is at
  parts,                  \* the split iterator's segments
  payload_b64,            \* the second segment
  decoded_payload_bytes,  \* its decoded bytes
  result,                 \* the Result decode_payload_insecurely returns
  id,                     \* the Option<RecordId> handed to a serializer
  ser,                    \* the serializer applied, "none" before
  wire,                   \* the value on the wire
  de,                     \* the deserializer applied, "none" before
  res                     \* the deserializer's Result

vars == <<api, given, token, pc, parts, payload_b64, decoded_payload_bytes,
          result, id, ser, wire, de, res>>

decodeVars == <<api, given, token, pc, parts, payload_b64,
                decoded_payload_bytes, result>>

Pending == [st |-> "pending", err |-> "none", claims |-> EmptyClaims]

Err(kind) == [st |-> "err", err |-> kind, claims |-> EmptyClaims]

Ok(claims) == [st |-> "ok", err |-> "none", claims |-> claims]

\* a call of decode_payload_insecurely::<T>(token)
InitDecode ==
  /\ api = "decode"
  /\ given \in DecodeInputs
  /\ token = TokenOf(given)
  /\ pc = "Start"
  /\ parts = <<>>
  /\ payload_b64 = <<>>
  /\ decoded_payload_bytes = <<>>
  /\ result = Pending
  /\ id = NoId /\ ser = "none" /\ wire = WireUnset /\ de = "none" /\ res = ResPending

\* a field about to be serialized, or a wire value about to be deserialized
InitCodec ==
  /\ api = "codec"
  /\ given = NoDecode /\ token = <<>> /\ pc = "Idle" /\ parts = <<>>
  /\ payload_b64 = <<>> /\ decoded_payload_bytes = <<>> /\ result = Pending
  /\ ser = "none" /\ de = "none" /\ res = ResPending
  /\ \/ id \in RecordIds \cup {NoId} /\ wire = WireUnset
     \/ id = NoId /\ wire \in WireInputs

Init == InitDecode \/ InitCodec

(***************************************************************************)
(* decode_payload_insecurely (lib.rs:17-32), one action per step           *)
(***************************************************************************)
\* lib.rs:23  let mut parts = token.split('.');
StartCall ==
  /\ pc = "Start"
  /\ parts' = Split(token)
  /\ pc' = "SplitSegments"
  /\ UNCHANGED <<api, given, token, payload_b64, decoded_payload_bytes, result,
                 id, ser, wire, de, res>>

\* the ok_or(..)? of lib.rs:25
OkOr(second) ==
  IF second.some
    THEN /\ payload_b64' = second.seg
         /\ pc' = "DecodeMiddleSegment"
         /\ result' = result
    ELSE /\ payload_b64' = payload_b64
         /\ pc' = "Failed"
         /\ result' = Err("MalformedToken")

\* lib.rs:25  parts.nth(1).ok_or("Invalid JWT format: missing payload")?
SplitSegments ==
  /\ pc = "SplitSegments"
  /\ OkOr(Nth1(parts))
  /\ UNCHANGED <<api, given, token, parts, decoded_payload_bytes,
                 id, ser, wire, de, res>>

\* the '?' of lib.rs:27
Decoded(r) ==
  IF r.ok
    THEN /\ decoded_payload_bytes' = r.bytes
         /\ pc' = "ParseStructuredPayload"
         /\ result' = result
    ELSE /\ decoded_payload_bytes' = decoded_payload_bytes
         /\ pc' = "Failed"
         /\ result' = Err("InvalidEncoding")

\* lib.rs:27  URL_SAFE_NO_PAD.decode(payload_b64)?
DecodeMiddleSegment ==
  /\ pc = "DecodeMiddleSegment"
  /\ Decoded(Base64Decode(payload_b64))
  /\ UNCHANGED <<api, given, token, parts, payload_b64, id, ser, wire, de, res>>

\* the '?' of lib.rs:29 and the Ok(claims) of lib.rs:31
Return(r) ==
  IF r.ok
    THEN pc' = "Done" /\ result' = Ok(r.claims)
    ELSE pc' = "Failed" /\ result' = Err("SchemaMismatch")

\* lib.rs:29-31  serde_json::from_slice(&decoded_payload_bytes)?; Ok(claims)
ParseStructuredPayload ==
  /\ pc = "ParseStructuredPayload"
  /\ Return(FromSlice(given.T, decoded_payload_bytes))
  /\ UNCHANGED <<api, given, token, parts, payload_b64, decoded_payload_bytes,
                 id, ser, wire, de, res>>

(***************************************************************************)
(* The field adapters, one action per function                             *)
(***************************************************************************)
\* a serializer named name writes out for the field
Serialize(name, out) ==
  /\ wire' = out
  /\ ser' = name
  /\ UNCHANGED <<decodeVars, id, de, res>>

\* a deserializer named name returns out for the wire value
Deserialize(name, out) ==
  /\ res' = out
  /\ de' = name
  /\ UNCHANGED <<decodeVars, id, ser, wire>>

\* a field waits to be serialized
CanSerialize == api = "codec" /\ wire.k = "unset" /\ ser = "none"

\* a wire value waits to be deserialized
CanDeserialize == api = "codec" /\ wire.k # "unset" /\ de = "none"

SerializeRecordId ==
  /\ CanSerialize /\ id.some
  /\ Serialize("serialize_record_id", serialize_record_id(id))

SerializeRecordIdOption ==
  /\ CanSerialize
  /\ Serialize("serialize_record_id_option", serialize_record_id_option(id))

SerializeRecordIdNaked ==
  /\ CanSerialize /\ id.some
  /\ Serialize("serialize_record_id_naked", serialize_record_id_naked(id))

SerializeRecordIdNakedOption ==
  /\ CanSerialize
  /\ Serialize("serialize_record_id_naked_option",
               serialize_record_id_naked_option(id))

DeserializeRecordIdNaked ==
  /\ CanDeserialize
  /\ Deserialize("deserialize_record_id_naked", deserialize_record_id_naked(wire))

DeserializeRecordIdNakedOption ==
  /\ CanDeserialize
  /\ Deserialize("deserialize_record_id_naked_option",
                 deserialize_record_id_naked_option(wire))

Next ==
  \/ StartCall
  \/ SplitSegments
  \/ DecodeMiddleSegment
  \/ ParseStructuredPayload
  \/ SerializeRecordId
  \/ SerializeRecordIdOption
  \/ SerializeRecordIdNaked
  \/ SerializeRecordIdNakedOption
  \/ DeserializeRecordIdNaked
  \/ DeserializeRecordIdNakedOption

Spec == Init /\ [][Next]_vars

(***************************************************************************)
(* Properties of decode_payload_insecurely                                 *)
(***************************************************************************)
\* the call has returned
Finished == pc \in {"Done", "Failed"}

\* the number of '.'-separated parts of a text
PartCount(t) == Cardinality({ i \in 1..Len(t) : t[i] = "." }) + 1

\* the token is header.base64url(JSON(claims)).signature for the given claims
IsEncodedToken ==
  /\ api = "decode"
  /\ "." \notin Range(given.header) \cup Range(given.sig)
  /\ token = given.header \o <<".">>
               \o Base64Encode(Bytes(SerializeClaims(given.T, given.claims)))
               \o <<".">> \o given.sig

\* C1: a token header.base64url-nopad(JSON(claims)).signature decodes, for
\* every header, signature and claims record (whatever its timestamps and
\* issuer), to Ok of a record whose nine fields are those of the claims
C1_EncodedClaimsDecode ==
  (IsEncodedToken /\ Finished) => (pc = "Done" /\ result = Ok(given.claims))

\* C1 witness: claims with nbf > exp and a string that JSON escapes, decoded
C1_Witness ==
  /\ IsEncodedToken /\ pc = "Done"
  /\ given.claims.nbf > given.claims.exp
  /\ given.claims.iat > 9
  /\ given.claims.iss = <<"\"">>

\* payload shapes that are not the claims record, whatever T is
BrokenShapes ==
  {"dup", "wrong", "negative", "float", "short", "long", "trailing",
   "truncated", "scalar", "empty", "binary"}

\* payload shapes that are the claims record, whatever T is
SoundShapes == {"exact", "extra", "array", "spaced"}

C2_Step ==
  /\ pc \notin {"Done", "Failed"}
  /\ pc = "Start" => (pc' = "SplitSegments" /\ result' = Pending)
  /\ pc = "SplitSegments" =>
       IF "." \notin Range(token)
         THEN pc' = "Failed" /\ result' = Err("MalformedToken")
         ELSE pc' = "DecodeMiddleSegment" /\ result' = Pending
  /\ pc = "DecodeMiddleSegment" =>
       IF given.enc # "valid"
         THEN pc' = "Failed" /\ result' = Err("InvalidEncoding")
         ELSE pc' = "ParseStructuredPayload" /\ result' = Pending
  /\ pc = "ParseStructuredPayload" =>
       /\ \/ pc' = "Done" /\ result'.st = "ok"
          \/ pc' = "Failed" /\ result' = Err("SchemaMismatch")
       /\ given.shape \in BrokenShapes => pc' = "Failed"
       /\ given.shape \in SoundShapes => pc' = "Done"

C3_NotThreePartsRejected ==
  (api = "decode" /\ Finished /\ PartCount(token) # 3) => pc = "Failed"

\* the payload is the claims object with one member left out, or with one
\* upper-case key written in lower case
LacksOneKey == api = "decode" /\ given.shape \in {"drop", "lower"}

\* C4 as stated: for every T, an object lacking one of the nine keys fails
\* with SchemaMismatch
C4_MissingKeyAlwaysFails ==
  (LacksOneKey /\ Finished) => (pc = "Failed" /\ result = Err("SchemaMismatch"))

\* C4 amended: an object lacking one of the nine keys fails with
\* SchemaMismatch, except that with an optional T a missing AC is read as
\* None and the call succeeds with the other eight fields as sent
C4_MissingKeyFailsUnlessOptionalAccess ==
  (LacksOneKey /\ Finished) =>
    IF Fields[given.field].name = "ac" /\ given.T = "OptionString"
      THEN pc = "Done" /\ result = Ok([given.claims EXCEPT !.ac = NoneAC])
      ELSE pc = "Failed" /\ result = Err("SchemaMismatch")

\* C4 witness: "NS" written "ns" has failed, T being optional
C4_Witness ==
  /\ LacksOneKey /\ given.shape = "lower" /\ Fields[given.field].name = "ns"
  /\ given.T = "OptionString"
  /\ pc = "Failed" /\ result = Err("SchemaMismatch")

(***************************************************************************)
(* Properties of the RecordId adapters                                     *)
(***************************************************************************)
\* a text the identifier library writes as it is: letters, digits and '_'
\* only, with at least one character that is no digit
Plain(t) ==
  /\ Range(t) \subseteq IdentChars
  /\ Range(t) \ DigitChars # {}

\* out is the library's rendering of the text t: t itself when plain, else t
\* between the brackets, each closing bracket inside preceded by '\'
Renders(t, out) ==
  IF Plain(t) THEN out = t
  ELSE /\ Len(out) >= 2
       /\ out[1] = "<"
       /\ out[Len(out)] = ">"
       /\ SelectSeq(SubSeq(out, 2, Len(out) - 1), LAMBDA c : c # "\\") = t
       /\ \A i \in 2..(Len(out) - 1) : out[i] = ">" => out[i - 1] = "\\"

\* a full-form serializer has written a present identifier
FullFormWritten ==
  ser \in {"serialize_record_id", "serialize_record_id_option"} /\ id.some

\* a naked-form serializer has written a present identifier
NakedFormWritten ==
  ser \in {"serialize_record_id_naked", "serialize_record_id_naked_option"}
    /\ id.some

C6_FullSerializerWritesKeyAlone ==
  FullFormWritten => (wire.k = "str" /\ wire.s = id.key)

\* the output of serialize_record_id has been handed to the required decoder
RoundTripped ==
  /\ ser = "serialize_record_id" /\ de = "deserialize_record_id_naked"
  /\ id.tb # <<>> /\ ":" \notin Range(id.key)

C9_AbsencePreserved ==
  /\ (ser \in {"serialize_record_id_option", "serialize_record_id_naked_option"}
        /\ ~id.some) => wire = WireNull
  /\ (ser # "none" /\ id.some) => wire.k = "str"
  /\ (de = "deserialize_record_id_naked_option" /\ wire.k = "null") => res = ResNone
  /\ (de = "deserialize_record_id_naked_option" /\ wire.k = "thing") =>
       (res.st = "ok" /\ res.some)

\* C9 witness: None written as null by the naked optional serializer and
\* read back as Ok(None)
C9_Witness ==
  /\ ser = "serialize_record_id_naked_option" /\ ~id.some /\ wire = WireNull
  /\ de = "deserialize_record_id_naked_option" /\ res = ResNone

\* the required decoder has read the wire value
RequiredDecoded == de = "deserialize_record_id_naked"

=============================================================================
